---------------------------- MODULE Spec2Model ----------------------------
(***************************************************************************)
(* A model of the OS simulator's scheduling and memory engine:             *)
(*   src/pcb.py      the process control block (PCB) and its ordering      *)
(*   src/memory.py   Memory, JobPool and LongTermScheduler                 *)
(*   src/devices.py  Device, DiskDrive (FSCAN) and CPU                     *)
(* queues.py (Queue, FIFOQueue, PriorityQueue) is imported by these files  *)
(* but is not among the sources; its operations are modelled from the      *)
(* specification and from the way devices.py calls them.                   *)
(*                                                                         *)
(* PCBs are heap objects: procs maps a pid to the object, and every queue  *)
(* holds pids (references).                                                *)
(***************************************************************************)
EXTENDS Integers, Sequences, FiniteSets, TLC

VARIABLES
    procs,       \* pid -> PCB object, for every PCB created so far
    pidCount,    \* the caller's pid counter (commands.py: pid_count)
    memSize,     \* Memory._size
    pageSize,    \* Memory._page_size
    frameTable,  \* Memory._frame_table: frame -> <<pid, page>>, or <<>> for None
    freeFrames,  \* Memory._free_frames (a deque, leftmost first)
    jobPool,     \* JobPool._q: pids, kept sorted by insort
    poolOrder,   \* history: the pooled pids in the order they were enqueued
    q1, q2,      \* DiskDrive._q1, DiskDrive._q2: pids in arrival order
    frozen1,     \* DiskDrive._q1._frozen
    frozen2,     \* DiskDrive._q2._frozen
    sweepNo,     \* history: the number of role swaps of the two disk queues
    active,      \* CPU.active: a pid, or NoProc for None
    readyQ,      \* the CPU's own PriorityQueue: pids in arrival order
    away,        \* pids handed out by CPU.dequeue and not yet back
    devQ,        \* the FIFO queue of the printer: pids in arrival order
    dead,        \* history: the pids of the processes terminated so far
    log,         \* history: the calls made, with their outcomes
    prev         \* history: the state the last call started from

vars ==
    <<procs, pidCount, memSize, pageSize, frameTable, freeFrames, jobPool,
      poolOrder, q1, q2, frozen1, frozen2, sweepNo, active, readyQ, away,
      devQ, dead, log, prev>>

memVars == <<memSize, pageSize, frameTable, freeFrames>>
poolVars == <<jobPool, poolOrder>>
diskVars == <<q1, q2, frozen1, frozen2, sweepNo>>
cpuVars == <<active, readyQ, away>>
sysVars == <<devQ, dead>>

---------------------------------------------------------------------------
(* Bounds of the model.                                                    *)

\* alpha is a multiple of 1/AlphaDen
AlphaDen ==
    4
\* the most bursts one process records
MaxBursts ==
    3
\* the most calls of one behaviour of the burst and memory specifications
MaxCalls ==
    3

\* Burst estimates are rationals with denominator AlphaDen^MaxBursts: the
\* fields last_est_burst and next_est_burst hold the estimate times EstScale.
\* After k <= MaxBursts recordings an estimate is a multiple of
\* EstScale / AlphaDen^k, so the divisions below are exact.
EstScale == AlphaDen ^ MaxBursts

Alphas == 0..AlphaDen
Taus == {0, 10}
BurstTimes == {0, 4, 6}

---------------------------------------------------------------------------
(* Helpers on sequences.                                                   *)

Last(s) == s[Len(s)]

RemoveAt(s, i) == SubSeq(s, 1, i - 1) \o SubSeq(s, i + 1, Len(s))

InsertAt(s, i, x) == SubSeq(s, 1, i - 1) \o <<x>> \o SubSeq(s, i, Len(s))

Range(s) == {s[i] : i \in 1..Len(s)}

Reverse(s) == [i \in 1..Len(s) |-> s[Len(s) + 1 - i]]

---------------------------------------------------------------------------
(* src/pcb.py: the PCB.                                                    *)

NoProc == 0
NoFrame == -1
NoCyl == -1
\* A system call parameter that is None; "None" stands for it in rw
NoParam == -1

\* The locations whose lower-cased name starts with "r", or is "cpu"
BurstLocs == {"ready", "Ready", "CPU"}
\* The disk drives' names start with "d"
DiskLocs == {"d1"}
JobLocs == {"job pool"}

\* PCB.__init__; alpha is in units of 1/AlphaDen, tau an integer
NewPCB(id_num, size, pages, alpha, tau, loc) ==
    [pid |-> id_num,
     proc_loc |-> loc,
     proc_size |-> size,
     proc_pages |-> pages,
     alpha |-> alpha,
     burst_history |-> <<>>,
     last_est_burst |-> tau * EstScale,
     next_est_burst |-> tau * EstScale,
     curr_burst |-> 0,
     pg_size |-> size \div pages,
     page_table |-> [p \in 0..(pages - 1) |-> NoFrame],
     file |-> NoParam,
     log |-> NoParam,
     phys |-> NoParam,
     rw |-> "None",
     len |-> NoParam,
     cyl |-> NoCyl]

\* PCB.set_proc_loc
SetProcLoc(p, loc) == [p EXCEPT !.proc_loc = loc]

\* PCB.__eq__: the key compared depends on where self is
PCBEq(self, other) ==
    IF self.proc_loc \in BurstLocs
        THEN self.next_est_burst = other.next_est_burst
    ELSE IF self.proc_loc \in DiskLocs
        THEN self.cyl = other.cyl
    ELSE IF self.proc_loc \in JobLocs
        THEN self.proc_size = other.proc_size
    ELSE self.pid = other.pid

\* PCB.__lt__
PCBLt(self, other) ==
    IF self.proc_loc \in BurstLocs
        THEN self.next_est_burst < other.next_est_burst
    ELSE IF self.proc_loc \in DiskLocs
        THEN self.cyl < other.cyl
    ELSE IF self.proc_loc \in JobLocs
        THEN self.proc_size < other.proc_size
    ELSE self.pid < other.pid

\* PCB.calc_next_est_burst:
\*   next = burst_history[-1] * (1 - alpha) + last_est_burst * alpha
CalcNextEstBurst(p) ==
    LET n == (Last(p.burst_history) * EstScale * (AlphaDen - p.alpha)
              + p.last_est_burst * p.alpha) \div AlphaDen
    IN  [p EXCEPT !.next_est_burst = n, !.last_est_burst = n]

\* PCB.record_burst_time
RecordBurstTime(p, burst) ==
    LET c == p.curr_burst + burst
    IN  CalcNextEstBurst([p EXCEPT !.curr_burst = c,
                                   !.burst_history = Append(@, c)])

\* A slip of PCB.update_burst_time: the estimate is not kept from going
\* below zero
UpdateBurstTimeNoFloor(p, elapsed) ==
    [p EXCEPT !.curr_burst = @ + elapsed,
              !.next_est_burst = @ - elapsed * EstScale]

\* PCB.update_burst_time
UpdateBurstTime(p, elapsed) ==
    LET e == elapsed * EstScale
    IN  [p EXCEPT !.curr_burst = @ + elapsed,
                  !.next_est_burst =
                      IF p.next_est_burst - e >= 0
                          THEN p.next_est_burst - e
                          ELSE 0]

\* PCB.clear_curr_burst
ClearCurrBurst(p) == [p EXCEPT !.curr_burst = 0]

\* PCB.allocate_memory; Memory.allocate only passes pages of the page table
AllocateMemory(p, page, frame) == [p EXCEPT !.page_table[page] = frame]

\* PCB.set_syst_call_params with the file name and the logical address l
\* the caller enters: the file and, once the offset is computed, the logical
\* address are stored before page_table[pg] is looked up
SetSystCallParams(p, file, l) ==
    LET p1 == [p EXCEPT !.file = file]
    IN  IF p.pg_size = 0
            THEN [res |-> "ZeroDivisionError", p |-> p1]
        ELSE LET offset == l % p.pg_size
                 pg == l \div p.pg_size
                 p2 == [p1 EXCEPT !.log = l]
             IN  IF pg \notin DOMAIN p.page_table
                     THEN [res |-> "KeyError", p |-> p2]
                 ELSE IF p.page_table[pg] = NoFrame
                     THEN [res |-> "TypeError", p |-> p2]
                 ELSE [res |-> "ok",
                       p |-> [p2 EXCEPT !.phys =
                                 p.pg_size * p.page_table[pg] + offset]]

\* PCB.set_read_write_params for the mode rw and the file length n the
\* caller enters: a printer writes, another device asks while rw is None,
\* and a write stores the length when it fits the process
SetReadWriteParams(p, printer, rw, n) ==
    LET p1 == IF printer THEN [p EXCEPT !.rw = "w"]
              ELSE IF p.rw = "None" THEN [p EXCEPT !.rw = rw]
              ELSE p
    IN  IF p1.rw = "w" /\ n + p1.log <= p1.proc_size
            THEN [p1 EXCEPT !.len = n]
            ELSE p1

\* PCB.set_cylinder_params with a cylinder c of the drive: asked for only
\* while cyl is None
SetCylinderParams(p, c) ==
    IF p.cyl = NoCyl THEN [p EXCEPT !.cyl = c] ELSE p

\* PCB.clear_params
ClearParams(p) ==
    [p EXCEPT !.file = NoParam, !.log = NoParam, !.phys = NoParam,
              !.rw = "None", !.len = NoParam, !.cyl = NoCyl]

---------------------------------------------------------------------------
(* The parts a specification leaves alone.                                 *)

MemIdle ==
    /\ memSize = 0
    /\ pageSize = 1
    /\ frameTable = <<>>
    /\ freeFrames = <<>>

PoolIdle ==
    /\ jobPool = <<>>
    /\ poolOrder = <<>>

\* DiskDrive.__init__: q1 is not frozen, q2 is
DiskInit ==
    /\ q1 = <<>>
    /\ q2 = <<>>
    /\ frozen1 = FALSE
    /\ frozen2 = TRUE
    /\ sweepNo = 0

\* No printer queue and no terminated process
SysIdle ==
    /\ devQ = <<>>
    /\ dead = {}

\* CPU.__init__
CPUInit ==
    /\ active = NoProc
    /\ readyQ = <<>>
    /\ away = {}

---------------------------------------------------------------------------
(* SpecBurst: one PCB and the calls that change its burst estimate.        *)

InitBurst ==
    /\ \E a \in Alphas, tau \in Taus :
          /\ procs = [i \in {1} |-> NewPCB(1, 1, 1, a, tau, "ready")]
          /\ log = <<[op |-> "new", alpha |-> a, tau |-> tau]>>
    /\ pidCount = 1
    /\ prev = <<>>
    /\ MemIdle /\ PoolIdle /\ DiskInit /\ CPUInit /\ SysIdle

BurstRecord(burst) ==
    /\ Len(log) <= MaxCalls
    /\ Len(procs[1].burst_history) < MaxBursts
    /\ procs' = [procs EXCEPT ![1] = RecordBurstTime(@, burst)]
    /\ log' = Append(log, [op |-> "record", arg |-> burst])
    /\ prev' = procs[1]
    /\ UNCHANGED <<sysVars, pidCount, memVars, poolVars, diskVars, cpuVars>>

BurstUpdate(elapsed) ==
    /\ Len(log) <= MaxCalls
    /\ procs' = [procs EXCEPT ![1] = UpdateBurstTime(@, elapsed)]
    /\ log' = Append(log, [op |-> "update", arg |-> elapsed])
    /\ prev' = procs[1]
    /\ UNCHANGED <<sysVars, pidCount, memVars, poolVars, diskVars, cpuVars>>

BurstClear ==
    /\ Len(log) <= MaxCalls
    /\ procs' = [procs EXCEPT ![1] = ClearCurrBurst(@)]
    /\ log' = Append(log, [op |-> "clear", arg |-> 0])
    /\ prev' = procs[1]
    /\ UNCHANGED <<sysVars, pidCount, memVars, poolVars, diskVars, cpuVars>>

NextBurst ==
    \/ \E b \in BurstTimes : BurstRecord(b)
    \/ \E e \in BurstTimes : BurstUpdate(e)
    \/ BurstClear

SpecBurst == InitBurst /\ [][NextBurst]_vars

\* C8: created with alpha = 0.5 and tau = 10, after record_burst_time(6) the
\* next estimated burst is 8, and after record_burst_time(4) right behind it
\* the next estimated burst is 6 and the burst history is [6, 4].
C8_BurstScenario ==
    LET p == procs[1]
        made == [op |-> "new", alpha |-> AlphaDen \div 2, tau |-> 10]
        rec6 == [op |-> "record", arg |-> 6]
        rec4 == [op |-> "record", arg |-> 4]
    IN  /\ (AlphaDen % 2 = 0 /\ log = <<made, rec6>>)
            => p.next_est_burst = 8 * EstScale
        /\ (AlphaDen % 2 = 0 /\ log = <<made, rec6, rec4>>)
            => /\ p.next_est_burst = 6 * EstScale
               /\ p.burst_history = <<6, 4>>

\* C9: record_burst_time(elapsed) sets the next estimated burst to
\* alpha * elapsed + (1 - alpha) * (the last estimated burst before the call),
\* and the last estimated burst to the new next estimated burst.
C9_AlphaWeighsLatestBurst ==
    (Len(log) > 1 /\ Last(log).op = "record") =>
        LET p == procs[1]
        IN  /\ p.next_est_burst * AlphaDen =
                   p.alpha * Last(log).arg * EstScale
                   + (AlphaDen - p.alpha) * prev.last_est_burst
            /\ p.last_est_burst = p.next_est_burst

---------------------------------------------------------------------------
(* src/memory.py: Memory.                                                  *)

NumFrames ==
    2
\* the most calls of one behaviour of the memory specifications
MaxOps ==
    3

\* (memory size, page size): the scenario's memory, and a small one whose
\* size is no multiple of its page size
MemConfigs == {<<1000, 100>>, <<2 * NumFrames + 1, 2>>}

\* The (size, pages) a new process may have in a memory of page size psz
Shapes(psz) ==
    IF psz = 100
        THEN {450, 600} \X {5, 6}
        ELSE (1..(2 * NumFrames + 1)) \X (1..(NumFrames + 1))

\* Memory.__init__: int(s / p) frames, all free
NewFrameTable(s, p) == [f \in 0..((s \div p) - 1) |-> <<>>]

NewFreeFrames(s, p) == [i \in 1..(s \div p) |-> i - 1]

\* Memory.free_mem
FreeMemOf(ff, psz) == Len(ff) * psz

FreeMem == FreeMemOf(freeFrames, pageSize)

\* Memory.is_in_mem (pids are small integers, for which "is" is equality)
IsInMemOf(ft, pid) ==
    \E f \in DOMAIN ft : ft[f] # <<>> /\ ft[f][1] = pid

IsInMem(pid) == IsInMemOf(frameTable, pid)

\* The loop of Memory.allocate from page on: popleft raises IndexError on an
\* empty deque and leaves what the earlier iterations did
RECURSIVE AllocPages(_, _, _, _)
AllocPages(ft, ff, p, page) ==
    IF page >= p.proc_pages
        THEN [res |-> "ok", ft |-> ft, ff |-> ff, p |-> p]
    ELSE IF ff = <<>>
        THEN [res |-> "IndexError", ft |-> ft, ff |-> ff, p |-> p]
    ELSE LET f == Head(ff)
         IN  AllocPages([ft EXCEPT ![f] = <<p.pid, page>>], Tail(ff),
                        AllocateMemory(p, page, f), page + 1)

\* A slip of Memory.allocate: the size is compared with the whole memory
MemAllocateTotal(ft, ff, psz, p) ==
    IF p.proc_size > Cardinality(DOMAIN ft) * psz
        THEN [res |-> "InsufficientMemory", ft |-> ft, ff |-> ff, p |-> p]
        ELSE AllocPages(ft, ff, p, 0)

\* A slip of Memory.allocate: a frame is used without being popped
RECURSIVE AllocPagesKeep(_, _, _, _)
AllocPagesKeep(ft, ff, p, page) ==
    IF page >= p.proc_pages
        THEN [res |-> "ok", ft |-> ft, ff |-> ff, p |-> p]
    ELSE IF ff = <<>>
        THEN [res |-> "IndexError", ft |-> ft, ff |-> ff, p |-> p]
    ELSE LET f == Head(ff)
         IN  AllocPagesKeep([ft EXCEPT ![f] = <<p.pid, page>>],
                            IF page = 0 THEN ff ELSE Tail(ff),
                            AllocateMemory(p, page, f), page + 1)

MemAllocateKeep(ft, ff, psz, p) ==
    IF p.proc_size > FreeMemOf(ff, psz)
        THEN [res |-> "InsufficientMemory", ft |-> ft, ff |-> ff, p |-> p]
        ELSE AllocPagesKeep(ft, ff, p, 0)

\* Memory.allocate
MemAllocate(ft, ff, psz, p) ==
    IF p.proc_size > FreeMemOf(ff, psz)
        THEN [res |-> "InsufficientMemory", ft |-> ft, ff |-> ff, p |-> p]
        ELSE AllocPages(ft, ff, p, 0)

\* The loop of Memory.deallocate, over the frames in the table's order
RECURSIVE DeallocFrames(_, _, _, _)
DeallocFrames(ft, ff, pid, k) ==
    IF k \notin DOMAIN ft
        THEN [res |-> "ok", ft |-> ft, ff |-> ff]
    ELSE IF ft[k] # <<>> /\ ft[k][1] = pid
        THEN DeallocFrames([ft EXCEPT ![k] = <<>>], Append(ff, k), pid, k + 1)
    ELSE DeallocFrames(ft, ff, pid, k + 1)

\* A slip of Memory.deallocate: the frames are cleared in the table and not
\* handed back to the free list
MemDeallocateLeak(ft, ff, pid) ==
    IF ~IsInMemOf(ft, pid)
        THEN [res |-> "InvalidProcess", ft |-> ft, ff |-> ff]
        ELSE [res |-> "ok",
              ft |-> [f \in DOMAIN ft |->
                        IF ft[f] # <<>> /\ ft[f][1] = pid
                            THEN <<>> ELSE ft[f]],
              ff |-> ff]

\* Memory.deallocate
MemDeallocate(ft, ff, pid) ==
    IF ~IsInMemOf(ft, pid)
        THEN [res |-> "InvalidProcess", ft |-> ft, ff |-> ff]
        ELSE DeallocFrames(ft, ff, pid, 0)

\* The state a call starts from, kept for the claims about what it changes
Snapshot ==
    [frameTable |-> frameTable, freeFrames |-> freeFrames, procs |-> procs,
     jobPool |-> jobPool]

MemInit ==
    \E cfg \in MemConfigs :
        /\ memSize = cfg[1]
        /\ pageSize = cfg[2]
        /\ frameTable = NewFrameTable(cfg[1], cfg[2])
        /\ freeFrames = NewFreeFrames(cfg[1], cfg[2])

---------------------------------------------------------------------------
(* SpecMemory: Memory.allocate and Memory.deallocate called directly.      *)

InitMemory ==
    /\ MemInit
    /\ procs = <<>>
    /\ pidCount = 0
    /\ log = <<>>
    /\ prev = <<>>
    /\ PoolIdle /\ DiskInit /\ CPUInit /\ SysIdle

\* A new process, with the next pid, is allocated
Allocate(size, pages) ==
    /\ Len(log) < MaxOps
    /\ LET pid == pidCount + 1
           new == NewPCB(pid, size, pages, 0, 0, "ready")
           r == MemAllocate(frameTable, freeFrames, pageSize, new)
       IN  /\ pidCount' = pid
           /\ procs' = Append(procs, r.p)
           /\ frameTable' = r.ft
           /\ freeFrames' = r.ff
           /\ log' = Append(log, [op |-> "allocate", pid |-> pid,
                                  res |-> r.res,
                                  freeBefore |-> Len(freeFrames),
                                  freeAfter |-> Len(r.ff)])
    /\ prev' = Snapshot
    /\ UNCHANGED <<sysVars, memSize, pageSize, poolVars, diskVars, cpuVars>>

Deallocate(pid) ==
    /\ Len(log) < MaxOps
    /\ LET r == MemDeallocate(frameTable, freeFrames, pid)
       IN  /\ frameTable' = r.ft
           /\ freeFrames' = r.ff
           /\ log' = Append(log, [op |-> "deallocate", pid |-> pid,
                                  res |-> r.res,
                                  freeBefore |-> Len(freeFrames),
                                  freeAfter |-> Len(r.ff)])
    /\ prev' = Snapshot
    /\ UNCHANGED <<sysVars, procs, pidCount, memSize, pageSize, poolVars,
                   diskVars,
                   cpuVars>>

NextMemory ==
    \/ \E sh \in Shapes(pageSize) : Allocate(sh[1], sh[2])
    \/ \E pid \in 1..pidCount : Deallocate(pid)

SpecMemory == InitMemory /\ [][NextMemory]_vars

\* ceil(a / b) for b > 0
CeilDiv(a, b) == (a + b - 1) \div b

\* The frames a page table maps its pages to
FramesOf(p) == {p.page_table[i] : i \in DOMAIN p.page_table}

\* C1: with p.size > freeMem, allocate(p) fails with InsufficientMemory and
\* leaves the frame table, the free-frame list and p's page table unchanged.
C1_AllocateRefusesWhenTooLarge ==
    (log # <<>> /\ Last(log).op = "allocate"
     /\ procs[Last(log).pid].proc_size
            > FreeMemOf(prev.freeFrames, pageSize)) =>
        /\ Last(log).res = "InsufficientMemory"
        /\ frameTable = prev.frameTable
        /\ freeFrames = prev.freeFrames
        /\ FramesOf(procs[Last(log).pid]) = {NoFrame}

\* C1's case: a refused allocate in a memory that holds another process
C1_Witness ==
    /\ log # <<>> /\ Last(log).op = "allocate"
    /\ Last(log).res = "InsufficientMemory"
    /\ procs[Last(log).pid].proc_size <= memSize
    /\ \E f \in DOMAIN frameTable : frameTable[f] # <<>>

\* Every page of p maps to a frame of its own that was free before the call
PagesMappedToFreeFrames(p) ==
    /\ \A i \in DOMAIN p.page_table :
          /\ p.page_table[i] \in Range(prev.freeFrames)
          /\ frameTable[p.page_table[i]] = <<p.pid, i>>
    /\ \A i, j \in DOMAIN p.page_table :
          i # j => p.page_table[i] # p.page_table[j]

\* C2 as stated: after a successful allocate(p) the number of free frames
\* has decreased by exactly ceil(p.size / frameSize), and every page of p
\* maps to a distinct frame that was free before.
C2_FreeFramesDropByCeilSize ==
    (log # <<>> /\ Last(log).op = "allocate" /\ Last(log).res = "ok") =>
        LET p == procs[Last(log).pid]
        IN  /\ Len(freeFrames) =
                   Len(prev.freeFrames) - CeilDiv(p.proc_size, pageSize)
            /\ PagesMappedToFreeFrames(p)

\* C2 amended: after a successful allocate(p) the number of free frames has
\* decreased by exactly p's page count, the frames left free are the frames
\* that were free less p's, and every page of p maps to a distinct frame
\* that was free before.
C2_FreeFramesDropByPageCount ==
    (log # <<>> /\ Last(log).op = "allocate" /\ Last(log).res = "ok") =>
        LET p == procs[Last(log).pid]
        IN  /\ Len(freeFrames) = Len(prev.freeFrames) - p.proc_pages
            /\ Range(freeFrames) = Range(prev.freeFrames) \ FramesOf(p)
            /\ PagesMappedToFreeFrames(p)

\* C2's case: a successful allocate of a process whose page count is not
\* ceil(size / frameSize)
C2_Witness ==
    /\ log # <<>> /\ Last(log).op = "allocate" /\ Last(log).res = "ok"
    /\ LET p == procs[Last(log).pid]
       IN  /\ p.proc_pages > 1
           /\ p.proc_pages # CeilDiv(p.proc_size, pageSize)

\* C10: for a resident process p, deallocate(p.pid) returns the number of
\* free frames to what it was before p was allocated, and an allocate of a
\* process of the same size and page count right after it succeeds and
\* brings the number back to what it was while p was resident.
C10_DeallocateAllocateRoundTrip ==
    \A i \in 1..(Len(log) - 1) :
        (/\ log[i].op = "allocate"
         /\ log[i].freeAfter < log[i].freeBefore
         /\ log[i + 1].op = "deallocate"
         /\ log[i + 1].pid = log[i].pid) =>
            /\ log[i + 1].res = "ok"
            /\ log[i + 1].freeAfter = log[i].freeBefore
            /\ (/\ i + 2 <= Len(log)
                /\ log[i + 2].op = "allocate"
                /\ procs[log[i + 2].pid].proc_size
                       = procs[log[i].pid].proc_size
                /\ procs[log[i + 2].pid].proc_pages
                       = procs[log[i].pid].proc_pages) =>
                   /\ log[i + 2].res = "ok"
                   /\ log[i + 2].freeAfter = log[i].freeAfter

---------------------------------------------------------------------------
(* src/memory.py: JobPool.                                                 *)

\* bisect.bisect_right(a, x, lo, hi) with 0-based lo and hi, comparing with
\* x < a[mid] (PCB.__lt__ of x)
RECURSIVE BisectRight(_, _, _, _, _)
BisectRight(a, ps, x, lo, hi) ==
    IF lo >= hi
        THEN lo
    ELSE LET mid == (lo + hi) \div 2
         IN  IF PCBLt(x, ps[a[mid + 1]])
                 THEN BisectRight(a, ps, x, lo, mid)
                 ELSE BisectRight(a, ps, x, mid + 1, hi)

\* JobPool.enqueue: set the location, then insort
JobPoolEnqueue(pool, ps, pid) ==
    LET ps2 == [ps EXCEPT ![pid] = SetProcLoc(@, "job pool")]
        at == BisectRight(pool, ps2, ps2[pid], 0, Len(pool))
    IN  [pool |-> InsertAt(pool, at + 1, pid), ps |-> ps2]

\* list.index(p): the first item that is p or equals it (PCB.__eq__)
ListIndex(a, ps, pid) ==
    LET hits == {i \in 1..Len(a) : a[i] = pid \/ PCBEq(ps[a[i]], ps[pid])}
    IN  CHOOSE i \in hits : \A j \in hits : i <= j

\* A slip of JobPool.dequeue_largest: the item the scan stopped at is popped
JobPoolDequeueLargestAtScan(pool, ps, free_mem) ==
    IF pool = <<>>
        THEN [res |-> "IndexError", pool |-> pool, pid |-> NoProc]
    ELSE LET fits == {i \in 1..Len(pool) : ps[pool[i]].proc_size <= free_mem}
         IN  IF fits = {}
                 THEN [res |-> "InvalidProcess", pool |-> pool, pid |-> NoProc]
                 ELSE LET i == CHOOSE k \in fits : \A j \in fits : j <= k
                      IN  [res |-> "ok", pool |-> RemoveAt(pool, i),
                           pid |-> pool[i]]

\* JobPool.dequeue_largest: scan reversed(_q) for the first p that fits,
\* then pop(index(p))
JobPoolDequeueLargest(pool, ps, free_mem) ==
    IF pool = <<>>
        THEN [res |-> "IndexError", pool |-> pool, pid |-> NoProc]
    ELSE LET fits == {i \in 1..Len(pool) : ps[pool[i]].proc_size <= free_mem}
         IN  IF fits = {}
                 THEN [res |-> "InvalidProcess", pool |-> pool, pid |-> NoProc]
                 ELSE LET i == CHOOSE k \in fits : \A j \in fits : j <= k
                          at == ListIndex(pool, ps, pool[i])
                      IN  [res |-> "ok", pool |-> RemoveAt(pool, at),
                           pid |-> pool[at]]

\* JobPool.dequeue: scan _q for the first p with that pid, then pop(index(p))
JobPoolDequeue(pool, ps, pid) ==
    IF pool = <<>>
        THEN [res |-> "IndexError", pool |-> pool, pid |-> NoProc]
    ELSE IF pid \notin Range(pool)
        THEN [res |-> "InvalidProcess", pool |-> pool, pid |-> NoProc]
    ELSE LET at == ListIndex(pool, ps, pid)
         IN  [res |-> "ok", pool |-> RemoveAt(pool, at), pid |-> pool[at]]

\* s without the members of the set gone
Without(s, gone) ==
    LET keep(x) == x \notin gone
    IN  SelectSeq(s, keep)

---------------------------------------------------------------------------
(* SpecPool: JobPool.enqueue, dequeue_largest and dequeue called directly. *)

\* the largest process size and memory bound of the job pool specification
MaxPoolSize ==
    3
\* the most calls of one behaviour of the job pool specification
MaxPoolOps ==
    4

InitPool ==
    /\ procs = <<>>
    /\ pidCount = 0
    /\ log = <<>>
    /\ prev = <<>>
    /\ MemIdle /\ PoolIdle /\ DiskInit /\ CPUInit /\ SysIdle

PoolSnapshot == [jobPool |-> jobPool, poolOrder |-> poolOrder]

\* A new process that memory had no room for enters the pool
PoolEnqueue(size) ==
    /\ Len(log) < MaxPoolOps
    /\ LET pid == pidCount + 1
           new == NewPCB(pid, size, 1, 0, 0, "ready")
           r == JobPoolEnqueue(jobPool, Append(procs, new), pid)
       IN  /\ pidCount' = pid
           /\ procs' = r.ps
           /\ jobPool' = r.pool
           /\ poolOrder' = Append(poolOrder, pid)
           /\ log' = Append(log, [op |-> "enqueue", pid |-> pid, arg |-> size,
                                  res |-> "ok"])
    /\ prev' = PoolSnapshot
    /\ UNCHANGED <<sysVars, memVars, diskVars, cpuVars>>

PoolDequeueLargest(m) ==
    /\ Len(log) < MaxPoolOps
    /\ LET r == JobPoolDequeueLargest(jobPool, procs, m)
       IN  /\ jobPool' = r.pool
           /\ poolOrder' = Without(poolOrder, {r.pid})
           /\ log' = Append(log, [op |-> "dequeue_largest", pid |-> r.pid,
                                  arg |-> m, res |-> r.res])
    /\ prev' = PoolSnapshot
    /\ UNCHANGED <<sysVars, procs, pidCount, memVars, diskVars, cpuVars>>

PoolDequeue(pid) ==
    /\ Len(log) < MaxPoolOps
    /\ LET r == JobPoolDequeue(jobPool, procs, pid)
       IN  /\ jobPool' = r.pool
           /\ poolOrder' = Without(poolOrder, {r.pid})
           /\ log' = Append(log, [op |-> "dequeue", pid |-> r.pid,
                                  arg |-> pid, res |-> r.res])
    /\ prev' = PoolSnapshot
    /\ UNCHANGED <<sysVars, procs, pidCount, memVars, diskVars, cpuVars>>

NextPool ==
    \/ \E size \in 1..MaxPoolSize : PoolEnqueue(size)
    \/ \E m \in 0..MaxPoolSize : PoolDequeueLargest(m)
    \/ \E pid \in 1..(pidCount + 1) : PoolDequeue(pid)

SpecPool == InitPool /\ [][NextPool]_vars

\* The pooled processes of the snapshot that fit in m
Fitting(snap, m) == {pid \in Range(snap.jobPool) : procs[pid].proc_size <= m}

\* pid was enqueued before every other member of the set
EarliestOf(snap, pid, among) ==
    \A other \in among \ {pid} :
        \E i, j \in 1..Len(snap.poolOrder) :
            /\ snap.poolOrder[i] = pid
            /\ snap.poolOrder[j] = other
            /\ i < j

\* C5: dequeue_largest(m) never returns a process with size > m; when some
\* pooled process fits it removes and returns one of maximum size among
\* those that fit, the earliest inserted of that size; it fails with
\* IndexError (QueueEmpty) on an empty pool and with InvalidProcess (NoFit)
\* when nothing fits, and leaves the pool unchanged in both cases.
C5_DequeueLargest ==
    (log # <<>> /\ Last(log).op = "dequeue_largest") =>
        LET m == Last(log).arg
            got == Last(log).pid
            fit == Fitting(prev, m)
        IN  /\ Last(log).res = "ok" => procs[got].proc_size <= m
            /\ (prev.jobPool = <<>>) =>
                   Last(log).res = "IndexError" /\ jobPool = prev.jobPool
            /\ (prev.jobPool # <<>> /\ fit = {}) =>
                   Last(log).res = "InvalidProcess" /\ jobPool = prev.jobPool
            /\ (fit # {}) =>
                   /\ Last(log).res = "ok"
                   /\ got \in fit
                   /\ \A pid \in fit :
                          procs[pid].proc_size <= procs[got].proc_size
                   /\ EarliestOf(prev, got,
                          {pid \in Range(prev.jobPool) :
                              procs[pid].proc_size = procs[got].proc_size})
                   /\ jobPool = Without(prev.jobPool, {got})
                   /\ Len(jobPool) = Len(prev.jobPool) - 1

\* C5's case: one of two pooled processes of the largest fitting size is
\* returned while a larger process, which does not fit, stays
C5_Witness ==
    /\ log # <<>> /\ Last(log).op = "dequeue_largest"
    /\ Last(log).res = "ok"
    /\ \E pid \in Range(jobPool) :
          procs[pid].proc_size = procs[Last(log).pid].proc_size
    /\ \E pid \in Range(jobPool) : procs[pid].proc_size > Last(log).arg

---------------------------------------------------------------------------
(* src/memory.py: LongTermScheduler.                                       *)

\* LongTermScheduler.schedule: True (Admitted) when allocate returns, False
\* (Deferred) when it raises InsufficientMemory; an IndexError of allocate
\* is not caught and reaches the caller
LTSSchedule(ft, ff, psz, pool, ps, pid) ==
    LET a == MemAllocate(ft, ff, psz, ps[pid])
    IN  IF a.res = "InsufficientMemory"
            THEN LET e == JobPoolEnqueue(pool, ps, pid)
                 IN  [res |-> "Deferred", ft |-> ft, ff |-> ff,
                      pool |-> e.pool, ps |-> e.ps]
            ELSE [res |-> IF a.res = "ok" THEN "Admitted" ELSE a.res,
                  ft |-> a.ft, ff |-> a.ff, pool |-> pool,
                  ps |-> [ps EXCEPT ![pid] = a.p]]

\* The loop of LongTermScheduler.terminate: while memory is free, the
\* largest pooled process that fits is appended to procs and allocated; any
\* of InsufficientMemory, InvalidProcess and IndexError ends the loop
RECURSIVE Backfill(_, _, _, _, _, _)
Backfill(ft, ff, psz, pool, ps, admitted) ==
    IF FreeMemOf(ff, psz) <= 0
        THEN [ft |-> ft, ff |-> ff, pool |-> pool, ps |-> ps,
              admitted |-> admitted]
    ELSE LET d == JobPoolDequeueLargest(pool, ps, FreeMemOf(ff, psz))
         IN  IF d.res # "ok"
                 THEN [ft |-> ft, ff |-> ff, pool |-> pool, ps |-> ps,
                       admitted |-> admitted]
             ELSE LET a == MemAllocate(ft, ff, psz, ps[d.pid])
                      ps2 == [ps EXCEPT ![d.pid] = a.p]
                      adm == Append(admitted, d.pid)
                  IN  IF a.res # "ok"
                          THEN [ft |-> a.ft, ff |-> a.ff, pool |-> d.pool,
                                ps |-> ps2, admitted |-> adm]
                          ELSE Backfill(a.ft, a.ff, psz, d.pool, ps2, adm)

\* A slip of LongTermScheduler.terminate: the freed memory is not given to
\* the pooled processes
LTSTerminateNoBackfill(ft, ff, psz, pool, ps, pid) ==
    IF IsInMemOf(ft, pid)
        THEN LET d == MemDeallocate(ft, ff, pid)
             IN  [res |-> "ok", ft |-> d.ft, ff |-> d.ff, pool |-> pool,
                  ps |-> ps, admitted |-> <<>>, gone |-> NoProc,
                  freeMid |-> Len(d.ff)]
        ELSE LET q == JobPoolDequeue(pool, ps, pid)
             IN  [res |-> IF q.res = "ok" THEN "None" ELSE "InvalidProcess",
                  ft |-> ft, ff |-> ff, pool |-> q.pool, ps |-> ps,
                  admitted |-> <<>>, gone |-> q.pid, freeMid |-> Len(ff)]

\* LongTermScheduler.terminate; freeMid is the number of free frames between
\* the deallocation and the loop
LTSTerminate(ft, ff, psz, pool, ps, pid) ==
    IF IsInMemOf(ft, pid)
        THEN LET d == MemDeallocate(ft, ff, pid)
                 b == Backfill(d.ft, d.ff, psz, pool, ps, <<>>)
             IN  [res |-> "ok", ft |-> b.ft, ff |-> b.ff, pool |-> b.pool,
                  ps |-> b.ps, admitted |-> b.admitted, gone |-> NoProc,
                  freeMid |-> Len(d.ff)]
        ELSE LET q == JobPoolDequeue(pool, ps, pid)
             IN  [res |-> IF q.res = "ok" THEN "None" ELSE "InvalidProcess",
                  ft |-> ft, ff |-> ff, pool |-> q.pool, ps |-> ps,
                  admitted |-> <<>>, gone |-> q.pid, freeMid |-> Len(ff)]

---------------------------------------------------------------------------
(* SpecLTS: LongTermScheduler.schedule and LongTermScheduler.terminate.    *)

InitLTS ==
    /\ MemInit
    /\ procs = <<>>
    /\ pidCount = 0
    /\ log = <<>>
    /\ prev = <<>>
    /\ PoolIdle /\ DiskInit /\ CPUInit /\ SysIdle

LTSSnapshot ==
    [frameTable |-> frameTable, freeFrames |-> freeFrames, procs |-> procs,
     jobPool |-> jobPool, poolOrder |-> poolOrder]

\* A new process, with the next pid, is admitted
Schedule(size, pages) ==
    /\ Len(log) < MaxOps
    /\ LET pid == pidCount + 1
           new == NewPCB(pid, size, pages, 0, 0, "ready")
           r == LTSSchedule(frameTable, freeFrames, pageSize, jobPool,
                            Append(procs, new), pid)
       IN  /\ pidCount' = pid
           /\ procs' = r.ps
           /\ frameTable' = r.ft
           /\ freeFrames' = r.ff
           /\ jobPool' = r.pool
           /\ poolOrder' = IF r.res = "Deferred"
                               THEN Append(poolOrder, pid)
                               ELSE poolOrder
           /\ log' = Append(log, [op |-> "schedule", pid |-> pid,
                                  res |-> r.res,
                                  freeBefore |-> Len(freeFrames),
                                  freeMid |-> Len(freeFrames),
                                  freeAfter |-> Len(r.ff),
                                  admitted |-> <<>>])
    /\ prev' = LTSSnapshot
    /\ UNCHANGED <<sysVars, memSize, pageSize, diskVars, cpuVars>>

Terminate(pid) ==
    /\ Len(log) < MaxOps
    /\ LET r == LTSTerminate(frameTable, freeFrames, pageSize, jobPool,
                             procs, pid)
       IN  /\ procs' = r.ps
           /\ frameTable' = r.ft
           /\ freeFrames' = r.ff
           /\ jobPool' = r.pool
           /\ poolOrder' = Without(poolOrder, Range(r.admitted) \cup {r.gone})
           /\ log' = Append(log, [op |-> "terminate", pid |-> pid,
                                  res |-> r.res,
                                  freeBefore |-> Len(freeFrames),
                                  freeMid |-> r.freeMid,
                                  freeAfter |-> Len(r.ff),
                                  admitted |-> r.admitted])
    /\ prev' = LTSSnapshot
    /\ UNCHANGED <<sysVars, pidCount, memSize, pageSize, diskVars, cpuVars>>

NextLTS ==
    \/ \E sh \in Shapes(pageSize) : Schedule(sh[1], sh[2])
    \/ \E pid \in 1..pidCount : Terminate(pid)

SpecLTS == InitLTS /\ [][NextLTS]_vars

\* Every page of p is mapped to a frame that holds it
FullyResident(p) ==
    \A i \in DOMAIN p.page_table :
        /\ p.page_table[i] \in DOMAIN frameTable
        /\ frameTable[p.page_table[i]] = <<p.pid, i>>

\* C6: terminate(pid) for a resident pid frees pid's frames and backfills:
\* on return no pooled process has size <= free memory, and the processes
\* returned are exactly those this call took out of the pool, each of them
\* fully resident (every one of its pages mapped) and no longer pooled.
C6_TerminateBackfills ==
    (log # <<>> /\ Last(log).op = "terminate"
     /\ IsInMemOf(prev.frameTable, Last(log).pid)) =>
        LET adm == Range(Last(log).admitted)
        IN  /\ ~IsInMem(Last(log).pid)
            /\ \A pid \in Range(jobPool) : procs[pid].proc_size > FreeMem
            /\ adm = Range(prev.jobPool) \ Range(jobPool)
            /\ Len(Last(log).admitted) = Cardinality(adm)
            /\ \A pid \in adm : FullyResident(procs[pid])

\* C7 as stated: memory of 1000 bytes and frame size 100; admitting P1 of
\* size 450 leaves freeMem = 550; admitting P2 of size 600 then fails and P2
\* is pooled; terminating P1 frees it (freeMem = 1000), the backfill
\* allocates P2 (freeMem = 400) and the result is exactly {P2}.
C7_ScenarioFreeMem550 ==
    (/\ memSize = 1000 /\ pageSize = 100
     /\ Len(log) >= 1
     /\ log[1].op = "schedule" /\ procs[1].proc_size = 450) =>
        /\ log[1].res = "Admitted"
        /\ log[1].freeAfter * pageSize = 550
        /\ (/\ Len(log) >= 2
            /\ log[2].op = "schedule" /\ procs[2].proc_size = 600) =>
               /\ log[2].res = "Deferred"
               /\ (Len(log) = 2 => jobPool = <<2>>)
               /\ (/\ Len(log) >= 3
                   /\ log[3].op = "terminate" /\ log[3].pid = 1) =>
                      /\ log[3].freeMid * pageSize = 1000
                      /\ log[3].admitted = <<2>>
                      /\ log[3].freeAfter * pageSize = 400
                      /\ (Len(log) = 3 => jobPool = <<>>)

\* C7 amended: the same scenario with P1 of 5 pages and P2 of 6 pages, where
\* admitting P1 leaves freeMem = 500 (five whole frames are taken).
C7_ScenarioFreeMem500 ==
    (/\ memSize = 1000 /\ pageSize = 100
     /\ Len(log) >= 1
     /\ log[1].op = "schedule"
     /\ procs[1].proc_size = 450 /\ procs[1].proc_pages = 5) =>
        /\ log[1].res = "Admitted"
        /\ log[1].freeAfter * pageSize = 500
        /\ (/\ Len(log) >= 2
            /\ log[2].op = "schedule"
            /\ procs[2].proc_size = 600 /\ procs[2].proc_pages = 6) =>
               /\ log[2].res = "Deferred"
               /\ (Len(log) = 2 => jobPool = <<2>>)
               /\ (/\ Len(log) >= 3
                   /\ log[3].op = "terminate" /\ log[3].pid = 1) =>
                      /\ log[3].freeMid * pageSize = 1000
                      /\ log[3].admitted = <<2>>
                      /\ log[3].freeAfter * pageSize = 400
                      /\ (Len(log) = 3 =>
                             jobPool = <<>> /\ FullyResident(procs[2]))

\* C7's case: the scenario has run to its end
C7_Witness ==
    /\ memSize = 1000 /\ pageSize = 100
    /\ Len(log) = 3
    /\ log[1].op = "schedule"
    /\ procs[1].proc_size = 450 /\ procs[1].proc_pages = 5
    /\ log[2].op = "schedule"
    /\ procs[2].proc_size = 600 /\ procs[2].proc_pages = 6
    /\ log[3].op = "terminate" /\ log[3].pid = 1
    /\ log[3].admitted = <<2>>

---------------------------------------------------------------------------
(* PriorityQueue of queues.py, which is not among the sources.  A queue is *)
(* the sequence of the pids it holds, in arrival order; dequeue yields an  *)
(* item that no other item is less than (PCB.__lt__).  Which of several    *)
(* such items it yields depends on the queue's layout and is left open.    *)
(* The frozen flag is only kept by the queue: DiskDrive reads it to pick   *)
(* the queue it dequeues from, which is the frozen one (devices.py:128).   *)

\* PriorityQueue.enqueue
PQEnqueue(q, pid) == Append(q, pid)

\* PriorityQueue.empty
PQEmpty(q) == q = <<>>

\* The positions PriorityQueue.dequeue may yield: those of the least items,
\* and any position when no item is least (items held in different places
\* compare by different keys, and then PCB.__lt__ is not an order)
PQMinima(q, ps) ==
    LET least == {i \in 1..Len(q) :
                     \A j \in 1..Len(q) : ~PCBLt(ps[q[j]], ps[q[i]])}
    IN  IF least = {} THEN 1..Len(q) ELSE least

\* PriorityQueue.dequeue: the outcomes; none (IndexError) on an empty queue
PQDequeue(q, ps) ==
    {[pid |-> q[i], q |-> RemoveAt(q, i)] : i \in PQMinima(q, ps)}

---------------------------------------------------------------------------
(* src/devices.py: DiskDrive, and SpecDisk: its enqueue and dequeue.       *)

\* the largest cylinder a request names
MaxCyl ==
    1
\* the most requests of one behaviour
MaxReqs ==
    3

\* A process reaches the drive from the CPU: CPU.enqueue has set its
\* location to "CPU" or "Ready", and DiskDrive.enqueue does not set it
ArrivalLocs == {"CPU", "Ready"}

InitDisk ==
    /\ DiskInit
    /\ procs = <<>>
    /\ pidCount = 0
    /\ log = <<>>
    /\ prev = <<>>
    /\ MemIdle /\ PoolIdle /\ CPUInit /\ SysIdle

DiskSnapshot ==
    [q1 |-> q1, q2 |-> q2, frozen1 |-> frozen1, frozen2 |-> frozen2]

\* A slip of DiskDrive.enqueue: the queue that took the arrival is frozen
\* and the other one is left as it was
DiskDriveEnqueueNoUnfreeze(a, b, f1, f2, pid) ==
    IF f1
        THEN [q1 |-> a, q2 |-> PQEnqueue(b, pid), frozen1 |-> f1,
              frozen2 |-> IF PQEmpty(a) THEN TRUE ELSE f2]
        ELSE [q1 |-> PQEnqueue(a, pid), q2 |-> b,
              frozen1 |-> IF PQEmpty(b) THEN TRUE ELSE f1, frozen2 |-> f2]

\* DiskDrive.enqueue of the process pid of ps
DiskDriveEnqueue(a, b, f1, f2, pid) ==
    IF f1
        THEN \* Q1 is frozen, add to Q2
             LET b2 == PQEnqueue(b, pid)
             IN  IF PQEmpty(a)
                     THEN [q1 |-> a, q2 |-> b2, frozen1 |-> FALSE,
                           frozen2 |-> TRUE]
                     ELSE [q1 |-> a, q2 |-> b2, frozen1 |-> f1,
                           frozen2 |-> f2]
        ELSE \* Q2 frozen, add to Q1
             LET a2 == PQEnqueue(a, pid)
             IN  IF PQEmpty(b)
                     THEN [q1 |-> a2, q2 |-> b, frozen1 |-> TRUE,
                           frozen2 |-> FALSE]
                     ELSE [q1 |-> a2, q2 |-> b, frozen1 |-> f1,
                           frozen2 |-> f2]

\* A slip of DiskDrive.dequeue: the queue that is not frozen, the one that
\* collects the arrivals, is served while it holds a request
DiskDriveDequeueCollecting(a, b, f1, f2, ps) ==
    IF f1 /\ ~PQEmpty(b)
        THEN {[pid |-> d.pid, q1 |-> a, q2 |-> d.q, frozen1 |-> f1,
               frozen2 |-> f2] : d \in PQDequeue(b, ps)}
    ELSE IF ~f1 /\ ~PQEmpty(a)
        THEN {[pid |-> d.pid, q1 |-> d.q, q2 |-> b, frozen1 |-> f1,
               frozen2 |-> f2] : d \in PQDequeue(a, ps)}
    ELSE IF f1
        THEN {[pid |-> d.pid, q1 |-> d.q, q2 |-> b,
               frozen1 |-> IF PQEmpty(d.q) THEN FALSE ELSE f1,
               frozen2 |-> IF PQEmpty(d.q) THEN TRUE ELSE f2]
                  : d \in PQDequeue(a, ps)}
        ELSE {[pid |-> d.pid, q1 |-> a, q2 |-> d.q,
               frozen1 |-> IF PQEmpty(d.q) THEN TRUE ELSE f1,
               frozen2 |-> IF PQEmpty(d.q) THEN FALSE ELSE f2]
                  : d \in PQDequeue(b, ps)}

\* A slip of DiskDrive.dequeue: the frozen queue refuses the dequeue as if
\* it were empty
DiskDriveDequeueRefused(a, b, f1, f2, ps) ==
    IF f1 \/ f2 THEN {} ELSE PQDequeue(a, ps)

\* DiskDrive.dequeue: the outcomes; none when the queue it dequeues from is
\* empty (the IndexError of PriorityQueue.dequeue reaches the caller before
\* any flag is set)
DiskDriveDequeue(a, b, f1, f2, ps) ==
    IF f1
        THEN {[pid |-> d.pid, q1 |-> d.q, q2 |-> b,
               frozen1 |-> IF PQEmpty(d.q) THEN FALSE ELSE f1,
               frozen2 |-> IF PQEmpty(d.q) THEN TRUE ELSE f2]
                  : d \in PQDequeue(a, ps)}
        ELSE {[pid |-> d.pid, q1 |-> a, q2 |-> d.q,
               frozen1 |-> IF PQEmpty(d.q) THEN TRUE ELSE f1,
               frozen2 |-> IF PQEmpty(d.q) THEN FALSE ELSE f2]
                  : d \in PQDequeue(b, ps)}

\* The number of role swaps after a call that left q1 frozen or not
SweepAfter(f1) == IF f1 # frozen1 THEN sweepNo + 1 ELSE sweepNo

\* The active process leaves the CPU with a request for cylinder cyl
DiskEnqueue(cyl, tau, loc) ==
    /\ pidCount < MaxReqs
    /\ LET pid == pidCount + 1
           new == [NewPCB(pid, 1, 1, 0, tau, loc) EXCEPT !.cyl = cyl]
           r == DiskDriveEnqueue(q1, q2, frozen1, frozen2, pid)
       IN  /\ pidCount' = pid
           /\ procs' = Append(procs, new)
           /\ q1' = r.q1
           /\ q2' = r.q2
           /\ frozen1' = r.frozen1
           /\ frozen2' = r.frozen2
           /\ sweepNo' = SweepAfter(r.frozen1)
           /\ log' = Append(log, [op |-> "enqueue", pid |-> pid,
                                  res |-> "ok", sweep |-> sweepNo])
    /\ prev' = DiskSnapshot
    /\ UNCHANGED <<sysVars, memVars, poolVars, cpuVars>>

\* A completion interrupt of the drive; the interrupts of one behaviour are
\* bounded only while no request is pending
DiskDequeue ==
    /\ Len(log) < 2 * MaxReqs + 1 \/ q1 # <<>> \/ q2 # <<>>
    /\ LET outs == DiskDriveDequeue(q1, q2, frozen1, frozen2, procs)
       IN  IF outs = {}
               THEN /\ log' = Append(log, [op |-> "dequeue", pid |-> NoProc,
                                           res |-> "IndexError",
                                           sweep |-> sweepNo])
                    /\ UNCHANGED diskVars
               ELSE \E r \in outs :
                    /\ q1' = r.q1
                    /\ q2' = r.q2
                    /\ frozen1' = r.frozen1
                    /\ frozen2' = r.frozen2
                    /\ sweepNo' = SweepAfter(r.frozen1)
                    /\ log' = Append(log, [op |-> "dequeue", pid |-> r.pid,
                                           res |-> "ok", sweep |-> sweepNo])
    /\ prev' = DiskSnapshot
    /\ UNCHANGED <<sysVars, procs, pidCount, memVars, poolVars, cpuVars>>

NextDisk ==
    \/ \E cyl \in 0..MaxCyl, tau \in Taus, loc \in ArrivalLocs :
          DiskEnqueue(cyl, tau, loc)
    \/ DiskDequeue

SpecDisk == InitDisk /\ [][NextDisk]_vars

\* The calls of the log that dequeued a request
Served == {i \in 1..Len(log) : log[i].op = "dequeue" /\ log[i].res = "ok"}

---------------------------------------------------------------------------
(* src/devices.py: CPU, and SpecCPU: its enqueue, terminate and dequeue.   *)

\* the most processes of one behaviour
MaxCPUProcs ==
    3
\* the most bursts recorded in one behaviour
MaxPreempts ==
    2

CPUAlphas == {0, AlphaDen}

InitCPU ==
    /\ CPUInit
    /\ procs = <<>>
    /\ pidCount = 0
    /\ log = <<>>
    /\ prev = <<>>
    /\ MemIdle /\ PoolIdle /\ DiskInit /\ SysIdle

CPUSnapshot == [active |-> active, readyQ |-> readyQ, procs |-> procs]

\* CPU.empty: "True if self.active else False"
CPUEmptyOf(act) == act # NoProc

\* A slip of CPU.enqueue: a process that becomes active is put on the ready
\* queue as well
CPUEnqueueOpBoth(act, rq, ps, pid) ==
    IF act = NoProc
        THEN [active |-> pid, readyQ |-> PQEnqueue(rq, pid),
              ps |-> [ps EXCEPT ![pid] = SetProcLoc(@, "CPU")]]
        ELSE [active |-> act, readyQ |-> PQEnqueue(rq, pid),
              ps |-> [ps EXCEPT ![pid] = SetProcLoc(@, "Ready")]]

\* CPU.enqueue
CPUEnqueueOp(act, rq, ps, pid) ==
    IF act = NoProc
        THEN [active |-> pid, readyQ |-> rq,
              ps |-> [ps EXCEPT ![pid] = SetProcLoc(@, "CPU")]]
        ELSE [active |-> act, readyQ |-> PQEnqueue(rq, pid),
              ps |-> [ps EXCEPT ![pid] = SetProcLoc(@, "Ready")]]

\* CPU.ready_to_CPU: "if PriorityQueue:" tests the class, which is always
\* true, so the head of the ready queue is always asked for; the outcomes,
\* none when the ready queue is empty (IndexError, active is left as it was)
ReadyToCPU(rq, ps) ==
    {[active |-> d.pid, readyQ |-> d.q] : d \in PQDequeue(rq, ps)}

\* The bursts recorded so far
Recorded ==
    LET RECURSIVE Sum(_)
        Sum(n) == IF n = 0 THEN 0
                  ELSE Len(procs[n].burst_history) + Sum(n - 1)
    IN  Sum(Len(procs))

\* A new process is handed to the CPU
CPUAdmit(alpha, tau) ==
    /\ pidCount < MaxCPUProcs
    /\ LET pid == pidCount + 1
           new == NewPCB(pid, 1, 1, alpha, tau, "ready")
           r == CPUEnqueueOp(active, readyQ, Append(procs, new), pid)
       IN  /\ pidCount' = pid
           /\ procs' = r.ps
           /\ active' = r.active
           /\ readyQ' = r.readyQ
           /\ log' = <<[op |-> "enqueue", pid |-> pid, res |-> "ok"]>>
    /\ prev' = CPUSnapshot
    /\ UNCHANGED <<sysVars, away, memVars, poolVars, diskVars>>

\* A process that left the CPU for a device comes back
CPUReturn(pid) ==
    /\ pid \in away
    /\ LET r == CPUEnqueueOp(active, readyQ, procs, pid)
       IN  /\ procs' = r.ps
           /\ active' = r.active
           /\ readyQ' = r.readyQ
           /\ log' = <<[op |-> "enqueue", pid |-> pid, res |-> "ok"]>>
    /\ away' = away \ {pid}
    /\ prev' = CPUSnapshot
    /\ UNCHANGED <<sysVars, pidCount, memVars, poolVars, diskVars>>

\* A slip of CPU.terminate: without an active process the call returns
\* normally
CPUTerminateQuiet ==
    /\ IF active = NoProc
           THEN /\ log' = <<[op |-> "terminate", pid |-> NoProc,
                             res |-> "ok"]>>
                /\ UNCHANGED <<active, readyQ>>
       ELSE IF ReadyToCPU(readyQ, procs) = {}
           THEN /\ log' = <<[op |-> "terminate", pid |-> active,
                             res |-> "IndexError"]>>
                /\ UNCHANGED <<active, readyQ>>
       ELSE \E r \in ReadyToCPU(readyQ, procs) :
                /\ active' = r.active
                /\ readyQ' = r.readyQ
                /\ log' = <<[op |-> "terminate", pid |-> active,
                             res |-> "ok"]>>
    /\ prev' = CPUSnapshot
    /\ UNCHANGED <<sysVars, procs, pidCount, away, memVars, poolVars, diskVars>>

\* CPU.terminate
CPUTerminate ==
    /\ IF active = NoProc
           THEN /\ log' = <<[op |-> "terminate", pid |-> NoProc,
                             res |-> "IndexError"]>>
                /\ UNCHANGED <<active, readyQ>>
       ELSE IF ReadyToCPU(readyQ, procs) = {}
           THEN /\ log' = <<[op |-> "terminate", pid |-> active,
                             res |-> "IndexError"]>>
                /\ UNCHANGED <<active, readyQ>>
       ELSE \E r \in ReadyToCPU(readyQ, procs) :
                /\ active' = r.active
                /\ readyQ' = r.readyQ
                /\ log' = <<[op |-> "terminate", pid |-> active,
                             res |-> "ok"]>>
    /\ prev' = CPUSnapshot
    /\ UNCHANGED <<sysVars, procs, pidCount, away, memVars, poolVars, diskVars>>

\* CPU.dequeue: the burst is recorded, and the process returned, only after
\* ready_to_CPU has returned
CPUDequeue(burst) ==
    /\ Recorded < MaxPreempts
    /\ IF active = NoProc
           THEN /\ log' = <<[op |-> "dequeue", pid |-> NoProc,
                             res |-> "IndexError"]>>
                /\ UNCHANGED <<active, readyQ, procs, away>>
       ELSE IF ReadyToCPU(readyQ, procs) = {}
           THEN /\ log' = <<[op |-> "dequeue", pid |-> active,
                             res |-> "IndexError"]>>
                /\ UNCHANGED <<active, readyQ, procs, away>>
       ELSE \E r \in ReadyToCPU(readyQ, procs) :
                /\ active' = r.active
                /\ readyQ' = r.readyQ
                /\ procs' = [procs EXCEPT
                                ![active] = RecordBurstTime(@, burst)]
                /\ away' = away \cup {active}
                /\ log' = <<[op |-> "dequeue", pid |-> active,
                             res |-> "ok"]>>
    /\ prev' = CPUSnapshot
    /\ UNCHANGED <<sysVars, pidCount, memVars, poolVars, diskVars>>

NextCPU ==
    \/ \E alpha \in CPUAlphas, tau \in Taus : CPUAdmit(alpha, tau)
    \/ \E pid \in away : CPUReturn(pid)
    \/ CPUTerminate
    \/ \E burst \in BurstTimes : CPUDequeue(burst)

SpecCPU == InitCPU /\ [][NextCPU]_vars

\* C4: when terminate or dequeue dispatches from a non-empty ready queue,
\* the process that becomes active is the ready process with the least next
\* estimated burst, and among those with that estimate the one with the
\* smallest pid.
C4_DispatchMinBurstThenPid ==
    (log # <<>> /\ Last(log).op \in {"terminate", "dequeue"}
     /\ prev.active # NoProc /\ prev.readyQ # <<>>) =>
        /\ active \in Range(prev.readyQ)
        /\ \A pid \in Range(prev.readyQ) :
              \/ prev.procs[active].next_est_burst
                     < prev.procs[pid].next_est_burst
              \/ /\ prev.procs[active].next_est_burst
                        = prev.procs[pid].next_est_burst
                 /\ active <= pid

---------------------------------------------------------------------------
(* SpecMemLTS: Memory.allocate, Memory.deallocate,                         *)
(* LongTermScheduler.schedule and LongTermScheduler.terminate in any       *)
(* order over one memory and one job pool.                                 *)

NextMemLTS ==
    \/ NextMemory
    \/ NextLTS

SpecMemLTS == InitLTS /\ [][NextMemLTS]_vars

\* The page-table entries of resident processes that record frame f
EntriesFor(f) ==
    {e \in UNION {{<<pid, page>> : page \in DOMAIN procs[pid].page_table} :
                     pid \in 1..pidCount} :
        IsInMem(e[1]) /\ procs[e[1]].page_table[e[2]] = f}

---------------------------------------------------------------------------
(* The CPU's slot and ready queue under SpecCPU.                           *)

\* C13: for a CPU with an active process and an empty ready queue,
\* terminate() and dequeue() succeed and leave the CPU empty: no process is
\* active afterwards and the CPU reports itself as empty.
C13_LastProcessLeavesCPUEmpty ==
    (log # <<>> /\ Last(log).op \in {"terminate", "dequeue"}
     /\ prev.active # NoProc /\ prev.readyQ = <<>>) =>
        /\ Last(log).res = "ok"
        /\ active = NoProc
        /\ CPUEmptyOf(active)

\* No pid occurs twice in the ready queue
ReadyQDistinct ==
    \A i, j \in 1..Len(readyQ) : i # j => readyQ[i] # readyQ[j]

C15_EmptyCPURefuses ==
    (log # <<>> /\ Last(log).op \in {"terminate", "dequeue"}
     /\ prev.active = NoProc) =>
        /\ Last(log).res = "IndexError"
        /\ active = NoProc
        /\ readyQ = prev.readyQ
        /\ procs = prev.procs

\* C15's case: terminate() was called on a CPU without an active process
C15_Witness ==
    /\ log # <<>> /\ Last(log).op = "terminate"
    /\ prev.active = NoProc
    /\ Last(log).res = "IndexError"

---------------------------------------------------------------------------
(* JobPool.dequeue under SpecPool.                                         *)

\* C16: dequeue(pid) removes and returns exactly the pooled process whose
\* pid is pid and leaves every other pooled process in the pool, also when
\* the pool holds several processes of one size.
C16_DequeueRemovesThatPid ==
    (log # <<>> /\ Last(log).op = "dequeue"
     /\ Last(log).arg \in Range(prev.jobPool)) =>
        /\ Last(log).res = "ok"
        /\ Last(log).pid = Last(log).arg
        /\ jobPool = Without(prev.jobPool, {Last(log).arg})

---------------------------------------------------------------------------
(* LongTermScheduler.schedule and the pool branch of terminate, under      *)
(* SpecLTS.                                                                *)

\* C17: schedule(proc) returns Admitted exactly when allocate succeeded, and
\* then proc is resident with every page mapped and is not pooled; otherwise
\* it returns Deferred, proc is pooled with no frame and the frame table is
\* unchanged.  After schedule proc is never both resident and pooled, and
\* never neither.
C17_ScheduleAdmitsOrDefers ==
    (log # <<>> /\ Last(log).op = "schedule") =>
        LET pid == Last(log).pid
            p == procs[pid]
        IN  /\ Last(log).res \in {"Admitted", "Deferred"}
            /\ Last(log).res = "Admitted" =>
                   /\ FullyResident(p)
                   /\ pid \notin Range(jobPool)
            /\ Last(log).res # "Admitted" =>
                   /\ Last(log).res = "Deferred"
                   /\ pid \in Range(jobPool)
                   /\ FramesOf(p) = {NoFrame}
                   /\ frameTable = prev.frameTable
                   /\ freeFrames = prev.freeFrames
            /\ ~(IsInMem(pid) /\ pid \in Range(jobPool))
            /\ IsInMem(pid) \/ pid \in Range(jobPool)

\* C18: terminate(pid) for a pid that is not resident removes that process
\* from the job pool, admits nothing and leaves memory unchanged; for a pid
\* that is neither resident nor pooled it fails with InvalidProcess and
\* leaves memory and the job pool unchanged.
C18_TerminateCancelsPooled ==
    (log # <<>> /\ Last(log).op = "terminate"
     /\ ~IsInMemOf(prev.frameTable, Last(log).pid)) =>
        /\ frameTable = prev.frameTable
        /\ freeFrames = prev.freeFrames
        /\ Last(log).admitted = <<>>
        /\ IF Last(log).pid \in Range(prev.jobPool)
               THEN /\ Last(log).res = "None"
                    /\ jobPool = Without(prev.jobPool, {Last(log).pid})
               ELSE /\ Last(log).res = "InvalidProcess"
                    /\ jobPool = prev.jobPool

---------------------------------------------------------------------------
(* SpecDiskLive: the drive with completion interrupts that keep coming.    *)

SpecDiskLive == InitDisk /\ [][NextDisk]_vars /\ WF_vars(DiskDequeue)

\* The requests waiting in either queue of the drive
Pending == Range(q1) \cup Range(q2)

\* The calls of the log that enqueued a request
Arrived == {i \in 1..Len(log) : log[i].op = "enqueue"}

\* No request that arrived after the queue of an earlier request had become
\* the serving queue (that is, in a later sweep) is served before it
NotOvertaken ==
    \A ir, ix \in Arrived :
        log[ir].sweep < log[ix].sweep =>
            \A j \in Served :
                log[j].pid = log[ix].pid =>
                    \E k \in Served : k < j /\ log[k].pid = log[ir].pid

---------------------------------------------------------------------------
(* FIFOQueue of queues.py, which is not among the sources: enqueue adds at *)
(* the back, dequeue takes from the front and raises IndexError on an      *)
(* empty queue.  Device (src/devices.py) is a FIFOQueue with a name.       *)

\* FIFOQueue.enqueue
FIFOEnqueue(q, pid) == Append(q, pid)

\* FIFOQueue.dequeue: the outcomes; none (IndexError) on an empty queue
FIFODequeue(q) ==
    IF q = <<>> THEN {} ELSE {[pid |-> Head(q), q |-> Tail(q)]}

\* The name of the printer
PrinterName == "p1"

\* A slip of Device.enqueue: the process is put at the front of the queue
DeviceEnqueueFront(q, ps, pid) ==
    [q |-> <<pid>> \o q,
     ps |-> [ps EXCEPT ![pid] = SetProcLoc(@, PrinterName)]]

\* Device.enqueue: set the location to the device's name, then enqueue
DeviceEnqueue(q, ps, pid) ==
    [q |-> FIFOEnqueue(q, pid),
     ps |-> [ps EXCEPT ![pid] = SetProcLoc(@, PrinterName)]]

---------------------------------------------------------------------------
(* SpecSys: the events of the system over one CPU, one memory with its job *)
(* pool, one disk drive and one printer.  The interpreter that turns the   *)
(* events into calls is not among the sources in a version that fits these *)
(* components; its steps follow the order of SysCommand.default            *)
(* (src/commands.py) and of the interface the specification describes.     *)

\* the most processes of one behaviour
MaxSysProcs ==
    2
\* the most requests waiting on the devices
MaxSysQueued ==
    2
\* the most role swaps of the disk queues before the last system call
MaxSysSweeps ==
    2

\* alpha of the processes admitted (one half)
SysAlpha == AlphaDen \div 2
\* tau of the processes admitted
SysTau == CHOOSE tau \in Taus : tau > 0
\* The (size, pages) of the processes admitted: in the small memory one that
\* fits, one with more pages than frames and one larger than the memory
SysShapes(psz) ==
    IF psz = 100
        THEN {<<450, 5>>, <<600, 6>>}
        ELSE {<<1, 1>>, <<1, NumFrames + 1>>, <<2 * NumFrames + 1, 1>>}
\* the logical addresses, file lengths and bursts the caller enters
LogAddrs == {0, 5}
FileLens == {1}
SysBursts == {4}
RWModes == {"r", "w"}
\* the devices a system call names: the disk drive and the printer
Devices == {"d1", PrinterName}

InitSys ==
    /\ MemInit
    /\ procs = <<>>
    /\ pidCount = 0
    /\ log = <<>>
    /\ prev = <<>>
    /\ PoolIdle /\ DiskInit /\ CPUInit /\ SysIdle

SysSnapshot ==
    [procs |-> procs, frameTable |-> frameTable, freeFrames |-> freeFrames,
     jobPool |-> jobPool, active |-> active, readyQ |-> readyQ,
     q1 |-> q1, q2 |-> q2, frozen1 |-> frozen1, frozen2 |-> frozen2,
     devQ |-> devQ]

\* CPU.enqueue of each process of pids in turn
RECURSIVE EnqueueAll(_, _, _, _)
EnqueueAll(act, rq, ps, pids) ==
    IF pids = <<>>
        THEN [active |-> act, readyQ |-> rq, ps |-> ps]
        ELSE LET r == CPUEnqueueOp(act, rq, ps, Head(pids))
             IN  EnqueueAll(r.active, r.readyQ, r.ps, Tail(pids))

\* Admission: a PCB with the next pid is created and scheduled; a process
\* that got its memory goes to the CPU, one that was deferred waits in the
\* job pool, and an IndexError of schedule ends the event
SysAdmit(size, pages) ==
    /\ pidCount < MaxSysProcs
    /\ LET pid == pidCount + 1
           new == NewPCB(pid, size, pages, SysAlpha, SysTau, "ready")
           r == LTSSchedule(frameTable, freeFrames, pageSize, jobPool,
                            Append(procs, new), pid)
           c == IF r.res = "Admitted"
                    THEN CPUEnqueueOp(active, readyQ, r.ps, pid)
                    ELSE [active |-> active, readyQ |-> readyQ, ps |-> r.ps]
       IN  /\ pidCount' = pid
           /\ procs' = c.ps
           /\ frameTable' = r.ft
           /\ freeFrames' = r.ff
           /\ jobPool' = r.pool
           /\ poolOrder' = IF r.res = "Deferred"
                               THEN Append(poolOrder, pid)
                               ELSE poolOrder
           /\ active' = c.active
           /\ readyQ' = c.readyQ
           /\ log' = <<[op |-> "admit", pid |-> pid, res |-> r.res]>>
    /\ prev' = SysSnapshot
    /\ UNCHANGED <<memSize, pageSize, diskVars, away, sysVars>>

\* Termination of the active process: CPU.terminate, whose IndexError (no
\* ready process) is reported, then LongTermScheduler.terminate of that pid
\* and CPU.enqueue of the processes it admitted
SysTerminate ==
    /\ IF active = NoProc
           THEN /\ log' = <<[op |-> "terminate", pid |-> NoProc,
                             res |-> "IndexError"]>>
                /\ UNCHANGED <<procs, memVars, poolVars, active, readyQ,
                               dead>>
           ELSE \E c \in IF ReadyToCPU(readyQ, procs) = {}
                             THEN {[active |-> active, readyQ |-> readyQ]}
                             ELSE ReadyToCPU(readyQ, procs) :
                    LET t == LTSTerminate(frameTable, freeFrames, pageSize,
                                          jobPool, procs, active)
                        e == EnqueueAll(c.active, c.readyQ, t.ps, t.admitted)
                    IN  /\ procs' = e.ps
                        /\ frameTable' = t.ft
                        /\ freeFrames' = t.ff
                        /\ jobPool' = t.pool
                        /\ poolOrder' = Without(poolOrder,
                                            Range(t.admitted) \cup {t.gone})
                        /\ active' = e.active
                        /\ readyQ' = e.readyQ
                        /\ dead' = dead \cup {active}
                        /\ log' = <<[op |-> "terminate", pid |-> active,
                                     res |-> t.res]>>
                        /\ UNCHANGED <<memSize, pageSize>>
    /\ prev' = SysSnapshot
    /\ UNCHANGED <<pidCount, diskVars, away, devQ>>

\* A system call of the active process for the device dev: the parameters
\* are set, the process is enqueued on the device, and CPU.dequeue moves the
\* next ready process to the CPU and records the burst; the IndexError of
\* CPU.dequeue (no ready process) is reported and the call returns
SysCall(dev, file, l, rw, n, cyl, burst) ==
    /\ Len(q1) + Len(q2) + Len(devQ) < MaxSysQueued
    /\ Recorded < MaxPreempts
    /\ sweepNo < MaxSysSweeps
    /\ IF active = NoProc
           THEN /\ log' = <<[op |-> "syscall", pid |-> NoProc, dev |-> dev,
                             res |-> "IndexError"]>>
                /\ UNCHANGED <<procs, diskVars, active, readyQ, devQ>>
       ELSE LET s == SetSystCallParams(procs[active], file, l)
            IN  IF s.res # "ok"
                    THEN /\ procs' = [procs EXCEPT ![active] = s.p]
                         /\ log' = <<[op |-> "syscall", pid |-> active,
                                      dev |-> dev, res |-> s.res]>>
                         /\ UNCHANGED <<diskVars, active, readyQ, devQ>>
                ELSE LET p3 == SetReadWriteParams(s.p, dev = PrinterName,
                                                  rw, n)
                         ps3 == [procs EXCEPT ![active] = p3]
                         d == DeviceEnqueue(devQ, ps3, active)
                         k == DiskDriveEnqueue(q1, q2, frozen1, frozen2,
                                               active)
                         ps4 == IF dev = PrinterName THEN d.ps
                                ELSE [ps3 EXCEPT ![active] =
                                         SetCylinderParams(@, cyl)]
                     IN  /\ IF dev = PrinterName
                                THEN devQ' = d.q /\ UNCHANGED diskVars
                                ELSE /\ q1' = k.q1
                                     /\ q2' = k.q2
                                     /\ frozen1' = k.frozen1
                                     /\ frozen2' = k.frozen2
                                     /\ sweepNo' = SweepAfter(k.frozen1)
                                     /\ UNCHANGED devQ
                         /\ IF ReadyToCPU(readyQ, ps4) = {}
                                THEN /\ procs' = ps4
                                     /\ UNCHANGED <<active, readyQ>>
                                ELSE \E r \in ReadyToCPU(readyQ, ps4) :
                                        /\ active' = r.active
                                        /\ readyQ' = r.readyQ
                                        /\ procs' = [ps4 EXCEPT ![active] =
                                                RecordBurstTime(@, burst)]
                         /\ log' = <<[op |-> "syscall", pid |-> active,
                                      dev |-> dev, res |-> "ok"]>>
    /\ prev' = SysSnapshot
    /\ UNCHANGED <<pidCount, memVars, poolVars, away, dead>>

\* A completion interrupt of the device dev: the process at the head of its
\* queue has its call parameters cleared and goes back to the CPU
SysInterrupt(dev) ==
    /\ LET outs == IF dev = PrinterName
                       THEN {[pid |-> f.pid, devQ |-> f.q, q1 |-> q1,
                              q2 |-> q2, frozen1 |-> frozen1,
                              frozen2 |-> frozen2] : f \in FIFODequeue(devQ)}
                       ELSE {[pid |-> k.pid, devQ |-> devQ, q1 |-> k.q1,
                              q2 |-> k.q2, frozen1 |-> k.frozen1,
                              frozen2 |-> k.frozen2] :
                                k \in DiskDriveDequeue(q1, q2, frozen1,
                                                       frozen2, procs)}
       IN  IF outs = {}
               THEN /\ log' = <<[op |-> "interrupt", pid |-> NoProc,
                                 dev |-> dev, res |-> "IndexError"]>>
                    /\ UNCHANGED <<procs, diskVars, active, readyQ, devQ>>
               ELSE \E o \in outs :
                    LET c == CPUEnqueueOp(active, readyQ,
                                 [procs EXCEPT ![o.pid] = ClearParams(@)],
                                 o.pid)
                    IN  /\ devQ' = o.devQ
                        /\ q1' = o.q1
                        /\ q2' = o.q2
                        /\ frozen1' = o.frozen1
                        /\ frozen2' = o.frozen2
                        /\ sweepNo' = SweepAfter(o.frozen1)
                        /\ procs' = c.ps
                        /\ active' = c.active
                        /\ readyQ' = c.readyQ
                        /\ log' = <<[op |-> "interrupt", pid |-> o.pid,
                                     dev |-> dev, res |-> "ok"]>>
    /\ prev' = SysSnapshot
    /\ UNCHANGED <<pidCount, memVars, poolVars, away, dead>>

NextSys ==
    \/ \E sh \in SysShapes(pageSize) : SysAdmit(sh[1], sh[2])
    \/ SysTerminate
    \/ \E dev \in Devices, l \in LogAddrs, rw \in RWModes, n \in FileLens,
          cyl \in 0..MaxCyl, burst \in SysBursts :
          SysCall(dev, 1, l, rw, n, cyl, burst)
    \/ \E dev \in Devices : SysInterrupt(dev)

SpecSys == InitSys /\ [][NextSys]_vars

\* The number of times pid occurs in the sequence s
Count(s, pid) == Cardinality({i \in 1..Len(s) : s[i] = pid})

\* The number of places that hold pid: the CPU's slot, the ready queue, the
\* printer queue, the two disk queues and the job pool
Holders(pid) ==
    (IF active = pid THEN 1 ELSE 0) + Count(readyQ, pid) + Count(devQ, pid)
        + Count(q1, pid) + Count(q2, pid) + Count(jobPool, pid)

\* The processes created and not terminated
Live == (1..pidCount) \ dead

\* C12: in every state reached by admit, terminate, system-call and
\* interrupt events each live process is held by exactly one of the CPU's
\* slot, the ready queue, a device or disk queue and the job pool.
C12_OneHolderPerProcess ==
    \A pid \in Live : Holders(pid) = 1

\* The call parameters of a process
ParamsOf(p) ==
    [file |-> p.file, log |-> p.log, phys |-> p.phys, rw |-> p.rw,
     len |-> p.len, cyl |-> p.cyl]

\* The queues of the devices
DeviceQueues(s) == <<s.devQ, s.q1, s.q2, s.frozen1, s.frozen2>>

\* C19: a system call either applies in full (the parameters of the active
\* process are set, the process leaves the CPU and is on the queue of the
\* device, and the next ready process, if there is one, is dispatched) or
\* fails and leaves the parameters, the CPU's slot, the ready queue and the
\* device queues as they were; also with an empty ready queue and with a
\* logical address outside the process.
C19_SystemCallAtomic ==
    (log # <<>> /\ Last(log).op = "syscall" /\ prev.active # NoProc) =>
        LET pid == Last(log).pid
            p == procs[pid]
        IN  IF Last(log).res = "ok"
                THEN /\ p.file # NoParam /\ p.log # NoParam
                     /\ p.phys # NoParam
                     /\ active # pid
                     /\ Count(devQ, pid) + Count(q1, pid) + Count(q2, pid)
                            = 1
                     /\ (prev.readyQ = <<>> => active = NoProc)
                     /\ (prev.readyQ # <<>> =>
                            active \in Range(prev.readyQ))
                ELSE /\ ParamsOf(p) = ParamsOf(prev.procs[pid])
                     /\ active = prev.active
                     /\ readyQ = prev.readyQ
                     /\ DeviceQueues(SysSnapshot) = DeviceQueues(prev)

---------------------------------------------------------------------------
(* The printer's queue under SpecSys.                                      *)

---------------------------------------------------------------------------
(* The two queues of the disk drive under SpecDisk.                        *)

\* C22: in every state reached by DiskDrive.enqueue and DiskDrive.dequeue,
\* failing dequeues included, exactly one of the two queues is frozen, and
\* initially the first queue is not frozen and the second is.
C22_ExactlyOneFrozen ==
    /\ frozen1 # frozen2
    /\ log = <<>> => (~frozen1 /\ frozen2)

\* C22's case: requests arrived, the roles were swapped more than once, a
\* dequeue failed on the way, and the first queue is now the frozen one
C22_Witness ==
    /\ \E i \in 1..Len(log) : log[i].op = "dequeue" /\ log[i].res = "IndexError"
    /\ \E i \in 1..Len(log) : log[i].op = "dequeue" /\ log[i].res = "ok"
    /\ sweepNo >= 3
    /\ frozen1 /\ ~frozen2
    /\ q1 # <<>>

\* The queue DiskDrive.dequeue serves in a state: the frozen one
ServingQueue(s) == IF s.frozen1 THEN s.q1 ELSE s.q2

\* The queue that takes the arrivals in a state
CollectingQueue(s) == IF s.frozen1 THEN s.q2 ELSE s.q1

---------------------------------------------------------------------------
(* Memory.allocate when the size fits, under SpecMemory.                   *)

\* C24: allocate(p) with p.size <= freeMem always succeeds and maps every
\* page of p to a frame, whatever p's page count is; it never stops with
\* some pages of p mapped and others not.
C24_AllocateNeverPartial ==
    (log # <<>> /\ Last(log).op = "allocate"
     /\ procs[Last(log).pid].proc_size
            <= FreeMemOf(prev.freeFrames, pageSize)) =>
        LET p == procs[Last(log).pid]
        IN  /\ Last(log).res = "ok"
            /\ \A i \in DOMAIN p.page_table : p.page_table[i] # NoFrame

---------------------------------------------------------------------------
(* The location attribute and the component that holds the process.        *)

\* C25: in every reachable state the location of each process names the
\* component that holds it: the CPU for the active process, also when the
\* ready queue dispatched it, the ready queue for the processes in it, the
\* disk drive for those in either of its queues, the printer for those in
\* its queue and the job pool for the pooled ones, so that the processes of
\* one queue are compared by that queue's key.
C25_LocationNamesHolder ==
    /\ active # NoProc => procs[active].proc_loc = "CPU"
    /\ \A i \in 1..Len(readyQ) :
          procs[readyQ[i]].proc_loc \in {"ready", "Ready"}
    /\ \A pid \in Range(q1) \cup Range(q2) : procs[pid].proc_loc \in DiskLocs
    /\ \A i \in 1..Len(devQ) : procs[devQ[i]].proc_loc = PrinterName
    /\ \A i \in 1..Len(jobPool) : procs[jobPool[i]].proc_loc \in JobLocs

---------------------------------------------------------------------------
(* PCB.update_burst_time under SpecBurst.                                  *)

\* C26: update_burst_time(elapsed) sets the next estimated burst to
\* max(0, next estimated burst - elapsed) and leaves the burst history and
\* the last estimated burst as they were; with tau >= 0 and 0 <= alpha <= 1
\* the next estimated burst is never negative after any sequence of
\* update_burst_time and record_burst_time calls with non-negative times.
C26_UpdateFloorsAtZero ==
    LET p == procs[1]
    IN  /\ p.next_est_burst >= 0
        /\ (Len(log) > 1 /\ Last(log).op = "update") =>
              LET left == prev.next_est_burst - Last(log).arg * EstScale
              IN  /\ p.next_est_burst = IF left > 0 THEN left ELSE 0
                  /\ p.burst_history = prev.burst_history
                  /\ p.last_est_burst = prev.last_est_burst

\* C26's case: after a recorded burst, an update by more than what was left
\* of the estimate set it to zero, and the next record raised it again
C26_Witness ==
    /\ Len(log) = 4
    /\ log[2].op = "record" /\ log[3].op = "update" /\ log[4].op = "record"
    /\ log[3].arg > 0
    /\ prev.next_est_burst = 0
    /\ prev.last_est_burst > 0
    /\ prev.last_est_burst < log[3].arg * EstScale
    /\ procs[1].next_est_burst > 0

===========================================================================
